---- MODULE Spec2Model ----
(***************************************************************************)
(* Model of the kudos Slack bot: the rich text helpers of app.py           *)
(* (extract_user_mention, extract_rich_text_content, the process_rich_text *)
(* family, create_kudos_message) and the view submission handler           *)
(* handle_kudos_submission together with the sheets logging it calls.      *)
(*                                                                         *)
(* Python values are modelled as follows.                                  *)
(*   str   a TLA+ string (TLC evaluates Len, SubSeq and \o on strings);    *)
(*         characters outside ASCII are written as one ASCII stand-in.     *)
(*   dict  a record; "k" \in DOMAIN d is Python's  "k" in d .              *)
(*   list  a sequence.                                                     *)
(*   a call that may raise returns Ok(v) or Raise(e).                      *)
(***************************************************************************)
EXTENDS Integers, Sequences, FiniteSets, TLC

VARIABLES
    input,      \* the argument handed to a helper (specifications of the helpers)
    called,     \* the helper that was applied to input, "none" before the call
    result,     \* what the call returned or raised
    pc,         \* per submission: position inside handle_kudos_submission
    view,       \* per submission: the submitted view (form values, private_metadata)
    local,      \* per submission: the handler's local variables
    acks,       \* per submission: the payloads ack was called with, in order
    events,     \* per submission: the calls the handler made, in order
    messages,   \* what chat_postMessage delivered, in order
    sheet,      \* rows appended to the spreadsheet, in order
    sheets      \* the module singleton of sheets_integration: its initialized flag

vars == <<input, called, result, pc, view, local, acks, events, messages, sheet, sheets>>

pureVars == <<input, called, result>>
handlerVars == <<pc, view, local, acks, events, messages, sheet, sheets>>

-----------------------------------------------------------------------------
(* Python values *)

\* None where a str is expected (result["user_id"]).
None == "None"

\* None where a dict is expected (an absent rich_text_input).
NoneDict == [py_none |-> TRUE]

EmptyDict == [k \in {} |-> k]

\* Python truthiness of a dict-or-None value:  not d  is  ~TruthyDict(d).
TruthyDict(d) == d # NoneDict /\ DOMAIN d # {}

\* Python truthiness of a str-or-None value.
TruthyStr(s) == s # None /\ s # ""

\* d.get(k, default)
Get(d, k, default) == IF k \in DOMAIN d THEN d[k] ELSE default

Ok(v) == [raised |-> FALSE, value |-> v]
Raise(e) == [raised |-> TRUE, value |-> e]

\* F applied to the value of v, v being evaluated once (TLC evaluates the
\* definition of a LET at each of its uses)
With(v, F(_)) == CHOOSE out \in {F(x) : x \in {v}} : TRUE

\* "  " * n  (a count below 1 gives the empty string)
RECURSIVE Repeat(_, _)
Repeat(s, n) == IF n <= 0 THEN "" ELSE s \o Repeat(s, n - 1)

\* the character of s at position i, counted from 1
Char(s, i) == SubSeq(s, i, i)

\* str.replace("\n", "\n> ") as process_rich_text_quote uses it
RECURSIVE ReplaceFrom(_, _)
ReplaceFrom(s, i) ==
    IF i > Len(s) THEN ""
    ELSE (IF Char(s, i) = "\n" THEN "\n> " ELSE Char(s, i)) \o ReplaceFrom(s, i + 1)

ReplaceNewlines(s) == With(s, LAMBDA str : ReplaceFrom(str, 1))

\* the ASCII characters str.strip() removes
Whitespace == {" ", "\t", "\n", "\r", "\f"}

\* str.strip(): what lies between the first and the last character that is
\* no whitespace
StripValue(s) ==
    LET kept == {i \in 1..Len(s) : Char(s, i) \notin Whitespace}
    IN  IF kept = {} THEN ""
        ELSE SubSeq(s, CHOOSE i \in kept : \A j \in kept : i <= j,
                       CHOOSE i \in kept : \A j \in kept : i >= j)

Strip(s) == With(s, LAMBDA str : StripValue(str))

-----------------------------------------------------------------------------
(* config.py *)

\* stand-in for U+1F44F
DEFAULT_EMOJI == "[clap]"

\* stand-in for U+2022 followed by a space
BulletMarker == "% "

\* stand-in for the grave accent (U+0060), which a TLA+ string cannot hold
Backtick == "'"

Fence == Backtick \o Backtick \o Backtick

RECOGNITION_TYPES ==
    [ silent_soldier  |-> [title |-> "Silent Soldier",  emoji |-> "[ninja]"],
      helping_hand    |-> [title |-> "Helping Hand",    emoji |-> "[handshake]"],
      innovation_guru |-> [title |-> "Innovation Guru", emoji |-> "[bulb]"],
      fast_learner    |-> [title |-> "Fast Learner",    emoji |-> "[rocket]"],
      problem_solver  |-> [title |-> "Problem Solver",  emoji |-> "[dart]"],
      team_player     |-> [title |-> "Team Player",     emoji |-> "[handshake]"] ]

-----------------------------------------------------------------------------
(* app.py: extract_user_mention *)

RECURSIVE MentionElements(_, _, _)

\* MentionElement storing the user ID at every mention, not at the first only
MentionElementLast(element, res) ==
    IF "type" \notin DOMAIN element THEN Raise("KeyError")
    ELSE IF element.type = "user"
    THEN IF "user_id" \notin DOMAIN element THEN Raise("KeyError")
         ELSE Ok([ mention_count   |-> res.mention_count + 1,
                   mentioned_users |-> Append(res.mentioned_users, element.user_id),
                   user_id         |-> element.user_id ])
    ELSE Ok(res)

\* lines 58-64: one element of a section
MentionElement(element, res) ==
    IF "type" \notin DOMAIN element THEN Raise("KeyError")
    ELSE IF element.type = "user"
    THEN IF "user_id" \notin DOMAIN element THEN Raise("KeyError")
         ELSE Ok([ mention_count   |-> res.mention_count + 1,
                   mentioned_users |-> Append(res.mentioned_users, element.user_id),
                   user_id         |-> IF res.user_id = None THEN element.user_id
                                       ELSE res.user_id ])
    ELSE Ok(res)

\* line 57: for element in block["elements"], from element number i on
MentionElements(elements, i, res) ==
    IF i > Len(elements) THEN Ok(res)
    ELSE With(MentionElement(elements[i], res),
              LAMBDA r : IF r.raised THEN r
                         ELSE MentionElements(elements, i + 1, r.value))

\* MentionBlock looking into the elements of every block, whatever its type
MentionBlockAnyType(block, res) ==
    IF "type" \notin DOMAIN block THEN Raise("KeyError")
    ELSE IF "elements" \in DOMAIN block
    THEN MentionElements(block.elements, 1, res)
    ELSE IF block.type = "rich_text_section" THEN Raise("KeyError")
    ELSE Ok(res)

\* lines 56-57: one top-level block
MentionBlock(block, res) ==
    IF "type" \notin DOMAIN block THEN Raise("KeyError")
    ELSE IF block.type = "rich_text_section"
    THEN IF "elements" \notin DOMAIN block THEN Raise("KeyError")
         ELSE MentionElements(block.elements, 1, res)
    ELSE Ok(res)

\* line 55: for block in rich_text["elements"], from block number i on
RECURSIVE MentionBlocks(_, _, _)
MentionBlocks(blocks, i, res) ==
    IF i > Len(blocks) THEN Ok(res)
    ELSE With(MentionBlock(blocks[i], res),
              LAMBDA r : IF r.raised THEN r
                         ELSE MentionBlocks(blocks, i + 1, r.value))

MentionResult(rich_text_input) ==
    LET res0 == [mention_count |-> 0, user_id |-> None, mentioned_users |-> <<>>]
    IN  IF ~TruthyDict(rich_text_input) \/ "rich_text_value" \notin DOMAIN rich_text_input
        THEN Ok(res0)
        ELSE LET rich_text == rich_text_input.rich_text_value
             IN  IF "elements" \in DOMAIN rich_text
                 THEN MentionBlocks(rich_text.elements, 1, res0)
                 ELSE Ok(res0)

extract_user_mention(rich_text_input) ==
    With(rich_text_input, LAMBDA doc : MentionResult(doc))

-----------------------------------------------------------------------------
(* app.py: the block processors *)

\* ApplyStyle with the italic marker applied before the bold one
ApplyStyleItalicFirst(text, style) ==
    LET t1 == IF Get(style, "italic", FALSE) THEN "_" \o text \o "_" ELSE text
        t2 == IF Get(style, "bold", FALSE)   THEN "*" \o t1 \o "*"   ELSE t1
        t3 == IF Get(style, "strike", FALSE) THEN "~" \o t2 \o "~"   ELSE t2
        t4 == IF Get(style, "code", FALSE)   THEN Backtick \o t3 \o Backtick ELSE t3
    IN  t4

\* lines 98-107: successive wrapping of a text by its style flags
ApplyStyle(text, style) ==
    LET t1 == IF Get(style, "bold", FALSE)   THEN "*" \o text \o "*" ELSE text
        t2 == IF Get(style, "italic", FALSE) THEN "_" \o t1 \o "_"   ELSE t1
        t3 == IF Get(style, "strike", FALSE) THEN "~" \o t2 \o "~"   ELSE t2
        t4 == IF Get(style, "code", FALSE)   THEN Backtick \o t3 \o Backtick ELSE t3
    IN  t4

\* SectionElement writing every link with its text, equal to the url or not
SectionElementLinkWithText(element) ==
    IF "type" \notin DOMAIN element THEN Raise("KeyError")
    ELSE CASE element.type = "text" ->
                IF "text" \notin DOMAIN element THEN Raise("KeyError")
                ELSE Ok(ApplyStyle(element.text, Get(element, "style", EmptyDict)))
           [] element.type = "emoji" ->
                IF "name" \notin DOMAIN element THEN Raise("KeyError")
                ELSE Ok(":" \o element.name \o ":")
           [] element.type = "user" ->
                IF "user_id" \notin DOMAIN element THEN Raise("KeyError")
                ELSE Ok("<@" \o element.user_id \o ">")
           [] element.type = "channel" ->
                IF "channel_id" \notin DOMAIN element THEN Raise("KeyError")
                ELSE Ok("<#" \o element.channel_id \o ">")
           [] element.type = "usergroup" ->
                IF "usergroup_id" \notin DOMAIN element THEN Raise("KeyError")
                ELSE Ok("<!subteam^" \o element.usergroup_id \o ">")
           [] element.type = "link" ->
                IF "url" \notin DOMAIN element THEN Raise("KeyError")
                ELSE LET url  == element.url
                         text == Get(element, "text", url)
                     IN  Ok("<" \o url \o "|" \o text \o ">")
           [] element.type = "broadcast" ->
                Ok("<!" \o Get(element, "range", "here") \o ">")
           [] OTHER -> Ok("")

\* lines 95-133: the fragment one inline element adds to the section content
SectionElement(element) ==
    IF "type" \notin DOMAIN element THEN Raise("KeyError")
    ELSE CASE element.type = "text" ->
                IF "text" \notin DOMAIN element THEN Raise("KeyError")
                ELSE Ok(ApplyStyle(element.text, Get(element, "style", EmptyDict)))
           [] element.type = "emoji" ->
                IF "name" \notin DOMAIN element THEN Raise("KeyError")
                ELSE Ok(":" \o element.name \o ":")
           [] element.type = "user" ->
                IF "user_id" \notin DOMAIN element THEN Raise("KeyError")
                ELSE Ok("<@" \o element.user_id \o ">")
           [] element.type = "channel" ->
                IF "channel_id" \notin DOMAIN element THEN Raise("KeyError")
                ELSE Ok("<#" \o element.channel_id \o ">")
           [] element.type = "usergroup" ->
                IF "usergroup_id" \notin DOMAIN element THEN Raise("KeyError")
                ELSE Ok("<!subteam^" \o element.usergroup_id \o ">")
           [] element.type = "link" ->
                IF "url" \notin DOMAIN element THEN Raise("KeyError")
                ELSE LET url  == element.url
                         text == Get(element, "text", url)
                     IN  IF text # url THEN Ok("<" \o url \o "|" \o text \o ">")
                         ELSE Ok(url)
           [] element.type = "broadcast" ->
                Ok("<!" \o Get(element, "range", "here") \o ">")
           [] OTHER -> Ok("")

\* line 94: for element in section["elements"], from element number i on
RECURSIVE SectionElements(_, _, _)
SectionElements(elements, i, content) ==
    IF i > Len(elements) THEN Ok(content)
    ELSE With(SectionElement(elements[i]),
              LAMBDA r : IF r.raised THEN r
                         ELSE SectionElements(elements, i + 1, content \o r.value))

SectionContent(section) ==
    IF "elements" \in DOMAIN section
    THEN SectionElements(section.elements, 1, "")
    ELSE Ok("")

process_rich_text_section(section) ==
    With(section, LAMBDA sec : SectionContent(sec))

\* ListItem numbering the items of an ordered list from 0
ListItemFromZero(item, i, style, indent) ==
    IF "type" \notin DOMAIN item THEN Raise("KeyError")
    ELSE IF item.type = "rich_text_section"
    THEN LET indent_str == Repeat("  ", indent)
             bullet == IF style = "bullet" THEN BulletMarker
                       ELSE ToString(i) \o ". "
         IN  With(process_rich_text_section(item),
                  LAMBDA item_content :
                      IF item_content.raised THEN item_content
                      ELSE Ok(indent_str \o bullet \o item_content.value \o "\n"))
    ELSE Ok("")

\* lines 145-156: item number i (0-based) of a list
ListItem(item, i, style, indent) ==
    IF "type" \notin DOMAIN item THEN Raise("KeyError")
    ELSE IF item.type = "rich_text_section"
    THEN LET indent_str == Repeat("  ", indent)
             bullet == IF style = "bullet" THEN BulletMarker
                       ELSE ToString(i + 1) \o ". "
         IN  With(process_rich_text_section(item),
                  LAMBDA item_content :
                      IF item_content.raised THEN item_content
                      ELSE Ok(indent_str \o bullet \o item_content.value \o "\n"))
    ELSE Ok("")

\* line 144: for i, item in enumerate(list_block["elements"]), from i on
RECURSIVE ListItems(_, _, _, _, _)
ListItems(items, i, style, indent, content) ==
    IF i >= Len(items) THEN Ok(content)
    ELSE With(ListItem(items[i + 1], i, style, indent),
              LAMBDA r : IF r.raised THEN r
                         ELSE ListItems(items, i + 1, style, indent, content \o r.value))

ListContent(list_block) ==
    LET style  == Get(list_block, "style", "bullet")
        indent == Get(list_block, "indent", 0)
    IN  IF "elements" \in DOMAIN list_block
        THEN ListItems(list_block.elements, 0, style, indent, "\n")
        ELSE Ok("\n")

process_rich_text_list(list_block) ==
    With(list_block, LAMBDA blk : ListContent(blk))

\* RawText leaving the newlines of a quote as they are
RECURSIVE RawTextAsIs(_, _, _, _)
RawTextAsIs(elements, i, content, quoted) ==
    IF i > Len(elements) THEN Ok(content)
    ELSE LET element == elements[i]
         IN  IF "type" \notin DOMAIN element THEN Raise("KeyError")
             ELSE IF element.type = "text"
             THEN IF "text" \notin DOMAIN element THEN Raise("KeyError")
                  ELSE RawTextAsIs(elements, i + 1, content \o element.text, quoted)
             ELSE RawTextAsIs(elements, i + 1, content, quoted)

\* lines 165-167 and 177-181: the raw text of the text elements from element
\* number i on; quoted is TRUE for process_rich_text_quote, which rewrites
\* the newlines
RECURSIVE RawText(_, _, _, _)
RawText(elements, i, content, quoted) ==
    IF i > Len(elements) THEN Ok(content)
    ELSE LET element == elements[i]
         IN  IF "type" \notin DOMAIN element THEN Raise("KeyError")
             ELSE IF element.type = "text"
             THEN IF "text" \notin DOMAIN element THEN Raise("KeyError")
                  ELSE RawText(elements, i + 1,
                               content \o (IF quoted THEN ReplaceNewlines(element.text)
                                           ELSE element.text),
                               quoted)
             ELSE RawText(elements, i + 1, content, quoted)

PreformattedContent(preformatted) ==
    With(IF "elements" \in DOMAIN preformatted
         THEN RawText(preformatted.elements, 1, "\n" \o Fence, FALSE)
         ELSE Ok("\n" \o Fence),
         LAMBDA r : IF r.raised THEN r ELSE Ok(r.value \o Fence \o "\n"))

process_rich_text_preformatted(preformatted) ==
    With(preformatted, LAMBDA blk : PreformattedContent(blk))

QuoteContent(quote) ==
    With(IF "elements" \in DOMAIN quote
         THEN RawText(quote.elements, 1, "\n> ", TRUE)
         ELSE Ok("\n> "),
         LAMBDA r : IF r.raised THEN r ELSE Ok(r.value \o "\n"))

process_rich_text_quote(quote) ==
    With(quote, LAMBDA blk : QuoteContent(blk))

-----------------------------------------------------------------------------
(* app.py: extract_rich_text_content *)

\* ContentBlock raising on a block of a type it does not know
ContentBlockRejectUnknown(block) ==
    IF "type" \notin DOMAIN block THEN Raise("KeyError")
    ELSE CASE block.type = "rich_text_section"      -> process_rich_text_section(block)
           [] block.type = "rich_text_list"         -> process_rich_text_list(block)
           [] block.type = "rich_text_preformatted" -> process_rich_text_preformatted(block)
           [] block.type = "rich_text_quote"        -> process_rich_text_quote(block)
           [] OTHER -> Raise("ValueError")

\* lines 78-85: the dispatch on the type of the block
ContentBlock(block) ==
    IF "type" \notin DOMAIN block THEN Raise("KeyError")
    ELSE CASE block.type = "rich_text_section"      -> process_rich_text_section(block)
           [] block.type = "rich_text_list"         -> process_rich_text_list(block)
           [] block.type = "rich_text_preformatted" -> process_rich_text_preformatted(block)
           [] block.type = "rich_text_quote"        -> process_rich_text_quote(block)
           [] OTHER -> Ok("")

\* ContentBlocks putting each fragment in front of what was collected
RECURSIVE ContentBlocksPrepend(_, _, _)
ContentBlocksPrepend(blocks, i, message_content) ==
    IF i > Len(blocks) THEN Ok(message_content)
    ELSE With(ContentBlock(blocks[i]),
              LAMBDA r : IF r.raised THEN r
                         ELSE ContentBlocksPrepend(blocks, i + 1, r.value \o message_content))

\* line 77: for block in rich_text["elements"], from block number i on
RECURSIVE ContentBlocks(_, _, _)
ContentBlocks(blocks, i, message_content) ==
    IF i > Len(blocks) THEN Ok(message_content)
    ELSE With(ContentBlock(blocks[i]),
              LAMBDA r : IF r.raised THEN r
                         ELSE ContentBlocks(blocks, i + 1, message_content \o r.value))

\* MessageContent returning the content as collected, not stripped
MessageContentNoStrip(rich_text_input) ==
    LET rich_text == rich_text_input.rich_text_value
    IN  IF "elements" \in DOMAIN rich_text
        THEN ContentBlocks(rich_text.elements, 1, "")
        ELSE Ok("")

\* lines 73-87, past the guard of line 70
MessageContent(rich_text_input) ==
    LET rich_text == rich_text_input.rich_text_value
    IN  With(IF "elements" \in DOMAIN rich_text
             THEN ContentBlocks(rich_text.elements, 1, "")
             ELSE Ok(""),
             LAMBDA r : IF r.raised THEN r ELSE Ok(Strip(r.value)))

extract_rich_text_content(rich_text_input) ==
    With(rich_text_input,
         LAMBDA doc : IF ~TruthyDict(doc) \/ "rich_text_value" \notin DOMAIN doc
                      THEN Ok("")
                      ELSE MessageContent(doc))

-----------------------------------------------------------------------------
(* app.py: create_kudos_message *)

\* create_kudos_message leaving the message part out when there is no content
create_kudos_message_if_content(recipient_id, recognition, message_content, sender_id) ==
    DEFAULT_EMOJI \o " *Thanks <@" \o recipient_id \o "> for being a "
    \o recognition.title \o " " \o recognition.emoji \o " * " \o DEFAULT_EMOJI \o "\n\n"
    \o (IF message_content = "" THEN ""
        ELSE "*Message:*\n" \o message_content \o "\n\n")
    \o "*From:* <@" \o sender_id \o ">\n"

\* lines 199-208
create_kudos_message(recipient_id, recognition, message_content, sender_id) ==
    DEFAULT_EMOJI \o " *Thanks <@" \o recipient_id \o "> for being a "
    \o recognition.title \o " " \o recognition.emoji \o " * " \o DEFAULT_EMOJI \o "\n\n"
    \o "*Message:*\n" \o message_content \o "\n\n"
    \o "*From:* <@" \o sender_id \o ">\n"

-----------------------------------------------------------------------------
(* Rich text documents handed to the helpers *)

MaxElems == 2       \* longest section handed to process_rich_text_section
MaxBlocks == 2      \* most top-level blocks of a document

Text(t) == [type |-> "text", text |-> t]
StyledText(t, st) == [type |-> "text", text |-> t, style |-> st]
Emoji(n) == [type |-> "emoji", name |-> n]
User(u) == [type |-> "user", user_id |-> u]
Channel(c) == [type |-> "channel", channel_id |-> c]
Usergroup(g) == [type |-> "usergroup", usergroup_id |-> g]
Link(u) == [type |-> "link", url |-> u]
LinkText(u, t) == [type |-> "link", url |-> u, text |-> t]
Broadcast(r) == [type |-> "broadcast", range |-> r]

Section(es) == [type |-> "rich_text_section", elements |-> es]
List(st, ind, items) ==
    [type |-> "rich_text_list", style |-> st, indent |-> ind, elements |-> items]
Preformatted(es) == [type |-> "rich_text_preformatted", elements |-> es]
Quote(es) == [type |-> "rich_text_quote", elements |-> es]

Document(blocks) ==
    [type |-> "rich_text_input",
     rich_text_value |-> [type |-> "rich_text", elements |-> blocks]]

StyleKeys == {"bold", "italic", "strike", "code"}

\* every flag given, as true or false; the empty style; one flag alone
Styles == [StyleKeys -> BOOLEAN] \cup {EmptyDict, [bold |-> TRUE], [code |-> TRUE]}

KnownElementTypes ==
    {"text", "emoji", "user", "channel", "usergroup", "link", "broadcast"}

\* the well-formed inline elements
GoodElems ==
    {StyledText("hi", st) : st \in Styles}
    \cup { Text("hi"), Emoji("tada"), User("U1"), Channel("C1"), Usergroup("S1"),
           Link("http://a"), LinkText("http://a", "site"),
           LinkText("http://a", "http://a"), LinkText("http://a", ""),
           Broadcast("channel") }

\* inline elements lacking a field, lacking their type tag, or of no known type
OddElems ==
    { [type |-> "text"], [type |-> "emoji"], [type |-> "user"],
      [type |-> "channel"], [type |-> "usergroup"], [type |-> "link"],
      [type |-> "link", text |-> "site"], [type |-> "broadcast"],
      [type |-> "text", style |-> [bold |-> TRUE]],
      [type |-> "color", value |-> "#fff"], [text |-> "hi"] }

ElemPool == GoodElems \cup OddElems

SeqsUpTo(S, n) == UNION {[1..k -> S] : k \in 0..n}

Sections == {Section(es) : es \in SeqsUpTo(ElemPool, MaxElems)}
                \cup {[type |-> "rich_text_section"]}

\* the top-level blocks documents are built from
BlockPool ==
    { Section(<<User("U1")>>),
      Section(<<User("U2"), Text(" thanks ")>>),
      Section(<<User("U1"), Emoji("tada"), User("U2")>>),
      Section(<<Text("Great job "), Emoji("tada"), User("U123")>>),
      Section(<<User("")>>),
      Section(<<Text(" a\n")>>),
      Section(<<StyledText("b", [bold |-> TRUE, italic |-> TRUE]), Text("\t")>>),
      Section(<<>>),
      Section(<<Text("a"), [type |-> "color", value |-> "#fff"], Text("b")>>),
      Quote(<<[type |-> "date", timestamp |-> "0"], Text("q")>>),
      List("bullet", 0, <<Section(<<Text("a")>>), Section(<<User("U3")>>)>>),
      List("ordered", 1, <<Section(<<Text("a")>>), Section(<<Text("b")>>)>>),
      List("bullet", 0, <<>>),
      Preformatted(<<Text("x = 1"), User("U4")>>),
      Preformatted(<<>>),
      Quote(<<Text("line1\nline2"), User("U5")>>),
      Quote(<<>>),
      [type |-> "rich_text_section"],
      [type |-> "rich_text_list"],
      [type |-> "rich_text_preformatted"],
      [type |-> "rich_text_quote"],
      [type |-> "rich_text_table", elements |-> <<Text("zzz")>>],
      [elements |-> <<Text("a")>>],
      Section(<<[text |-> "a"]>>),
      Section(<<[type |-> "user"]>>),
      Quote(<<[type |-> "text"]>>) }

\* documents, and the inputs that lack the top-level structure
Docs ==
    {Document(bs) : bs \in SeqsUpTo(BlockPool, MaxBlocks)}
    \cup { NoneDict, EmptyDict, [type |-> "rich_text_input"],
           [type |-> "rich_text_input", rich_text_value |-> [type |-> "rich_text"]] }

HasBlocks(d) ==
    /\ TruthyDict(d)
    /\ "rich_text_value" \in DOMAIN d
    /\ "elements" \in DOMAIN d.rich_text_value

BlocksOf(d) == IF HasBlocks(d) THEN d.rich_text_value.elements ELSE <<>>

-----------------------------------------------------------------------------
(* Submissions handled by handle_kudos_submission *)

Submissions == {"s1", "s2"}

HandlerIdle ==
    /\ pc = [s \in Submissions |-> "idle"]
    /\ view = [s \in Submissions |-> EmptyDict]
    /\ local = [s \in Submissions |-> EmptyDict]
    /\ acks = [s \in Submissions |-> <<>>]
    /\ events = [s \in Submissions |-> <<>>]
    /\ messages = <<>>
    /\ sheet = <<>>
    /\ sheets = [initialized |-> FALSE]

NoCall ==
    /\ input = NoneDict
    /\ called = "none"
    /\ result = Ok("")

-----------------------------------------------------------------------------
(* The helpers applied to one document *)

InitDoc ==
    /\ input \in Docs
    /\ called = "none"
    /\ result = Ok("")
    /\ HandlerIdle

CallExtractUserMention ==
    /\ called = "none"
    /\ called' = "extract_user_mention"
    /\ result' = extract_user_mention(input)
    /\ UNCHANGED <<input, handlerVars>>

CallExtractRichTextContent ==
    /\ called = "none"
    /\ called' = "extract_rich_text_content"
    /\ result' = extract_rich_text_content(input)
    /\ UNCHANGED <<input, handlerVars>>

NextDoc == CallExtractUserMention \/ CallExtractRichTextContent

SpecDoc == InitDoc /\ [][NextDoc]_vars

(* process_rich_text_section applied to one section *)

InitSection ==
    /\ input \in Sections
    /\ called = "none"
    /\ result = Ok("")
    /\ HandlerIdle

CallProcessSection ==
    /\ called = "none"
    /\ called' = "process_rich_text_section"
    /\ result' = process_rich_text_section(input)
    /\ UNCHANGED <<input, handlerVars>>

NextSection == CallProcessSection

SpecSection == InitSection /\ [][NextSection]_vars

(* process_rich_text_list and process_rich_text_quote applied to one block *)

MaxItems == 3       \* most items of a list

\* what a list may hold as an item
ItemPool ==
    { Section(<<Text("a")>>), Section(<<Text("b")>>), Section(<<>>),
      Section(<<StyledText("c", [bold |-> TRUE]), User("U3")>>),
      Section(<<[type |-> "emoji"]>>),
      Quote(<<Text("q")>>) }

ListBlocks ==
    {List(st, ind, items) : st \in {"bullet", "ordered"}, ind \in 0..2,
                            items \in SeqsUpTo(ItemPool, MaxItems)}
    \cup {[type |-> "rich_text_list", elements |-> items] :
              items \in SeqsUpTo(ItemPool, 1)}
    \cup {[type |-> "rich_text_list"]}

\* what a quote may hold as an element
QuoteElemPool ==
    { Text("line1\nline2"), Text("a"), Text("\n"), Text(""),
      StyledText("b", [bold |-> TRUE, code |-> TRUE]),
      User("U5"), Emoji("tada"), LinkText("http://a", "site"),
      [type |-> "date", timestamp |-> "0"], [type |-> "text"] }

QuoteBlocks ==
    {Quote(es) : es \in SeqsUpTo(QuoteElemPool, MaxElems)}
    \cup {[type |-> "rich_text_quote"]}

InitBlock ==
    /\ input \in ListBlocks \cup QuoteBlocks
    /\ called = "none"
    /\ result = Ok("")
    /\ HandlerIdle

CallProcessList ==
    /\ called = "none"
    /\ input.type = "rich_text_list"
    /\ called' = "process_rich_text_list"
    /\ result' = process_rich_text_list(input)
    /\ UNCHANGED <<input, handlerVars>>

CallProcessQuote ==
    /\ called = "none"
    /\ input.type = "rich_text_quote"
    /\ called' = "process_rich_text_quote"
    /\ result' = process_rich_text_quote(input)
    /\ UNCHANGED <<input, handlerVars>>

NextBlock == CallProcessList \/ CallProcessQuote

SpecBlock == InitBlock /\ [][NextBlock]_vars

(* create_kudos_message applied to one set of arguments *)

\* line 395: the recognition the handler passes on
Recognitions ==
    {RECOGNITION_TYPES[k] : k \in DOMAIN RECOGNITION_TYPES}
    \cup {[title |-> "Team Member", emoji |-> "[clap]"]}

MessageArguments ==
    [ recipient_id    : {"U1", "U2", "W0123"},
      recognition     : Recognitions,
      message_content : {"", "hi", "a\n% b", "*Message:*\n", "<@U1> thanks"},
      sender_id       : {"U9", "U1"} ]

InitMessage ==
    /\ input \in MessageArguments
    /\ called = "none"
    /\ result = Ok("")
    /\ HandlerIdle

CallCreateKudosMessage ==
    /\ called = "none"
    /\ called' = "create_kudos_message"
    /\ result' = Ok(create_kudos_message(input.recipient_id, input.recognition,
                                         input.message_content, input.sender_id))
    /\ UNCHANGED <<input, handlerVars>>

NextMessage == CallCreateKudosMessage

SpecMessage == InitMessage /\ [][NextMessage]_vars

-----------------------------------------------------------------------------
(* sheets_integration.py: SheetsIntegration.log_recognition *)

\* lines 131-143: the row, in the order of SHEETS_CONFIG["headers"]
SheetRow(recognition_data) ==
    << "timestamp",
       Get(recognition_data, "recipient_name", "Unknown"),
       Get(recognition_data, "recipient_id", ""),
       Get(recognition_data, "recognition_type", ""),
       Get(recognition_data, "message", ""),
       Get(recognition_data, "sender_name", "Unknown"),
       Get(recognition_data, "sender_id", ""),
       Get(recognition_data, "channel_id", "") >>

\* what a call did: whether it raised, the value it returned (or the
\* exception), the rows it appended to the sheet
Did(raised, value, rows) == [raised |-> raised, value |-> value, rows |-> rows]

\* log_recognition without the except clause of lines 150-153
log_recognition_no_except(self, recognition_data, append_raises) ==
    IF ~self.initialized THEN Did(FALSE, FALSE, <<>>)
    ELSE IF append_raises THEN Did(TRUE, "APIError", <<>>)
    ELSE Did(FALSE, TRUE, <<SheetRow(recognition_data)>>)

\* lines 91-153: self is the integration object, append_raises whether
\* sheet.append_row fails
log_recognition(self, recognition_data, append_raises) ==
    IF ~self.initialized THEN Did(FALSE, FALSE, <<>>)
    ELSE IF append_raises THEN Did(FALSE, FALSE, <<>>)
    ELSE Did(FALSE, TRUE, <<SheetRow(recognition_data)>>)

(* log_recognition applied to one integration object and one record *)

RecognitionRecords ==
    [ recipient_name   : {"Ann"},
      recipient_id     : {"U1", "U2", "W0123"},
      recognition_type : {"Helping Hand (helping_hand)", "Team Member (night_owl)"},
      message          : {"", "hi"},
      sender_name      : {"Bob"},
      sender_id        : {"U9"},
      channel_id       : {"C1", "C2"} ]
    \cup {EmptyDict, [recipient_id |-> "U1", message |-> "hi"]}

\* line 76: the headers, appended when the integration found the sheet empty
HeaderRow ==
    << "Timestamp", "Recipient", "Recipient ID", "Recognition Type",
       "Message", "Sender", "Sender ID", "Channel ID" >>

InitSheets ==
    /\ input \in [ self : {[initialized |-> FALSE], [initialized |-> TRUE]},
                   recognition_data : RecognitionRecords ]
    /\ called = "none"
    /\ result = Did(FALSE, FALSE, <<>>)
    /\ pc = [s \in Submissions |-> "idle"]
    /\ view = [s \in Submissions |-> EmptyDict]
    /\ local = [s \in Submissions |-> EmptyDict]
    /\ acks = [s \in Submissions |-> <<>>]
    /\ events = [s \in Submissions |-> <<>>]
    /\ messages = <<>>
    /\ sheet = IF input.self.initialized THEN <<HeaderRow>> ELSE <<>>
    /\ sheets = input.self

CallLogRecognition ==
    /\ called = "none"
    /\ \E append_raises \in BOOLEAN :
          \E r \in {log_recognition(sheets, input.recognition_data, append_raises)} :
              /\ called' = IF append_raises THEN "log_recognition, append_row raising"
                           ELSE "log_recognition"
              /\ result' = r
              /\ sheet' = sheet \o r.rows
    /\ UNCHANGED <<input, pc, view, local, acks, events, messages, sheets>>

NextSheets == CallLogRecognition

SpecSheets == InitSheets /\ [][NextSheets]_vars

-----------------------------------------------------------------------------
(* app.py: handle_kudos_submission *)

MissingMentionMsg == "Please @mention a coworker to give kudos to."
TooManyMentionsMsg(n) ==
    "You mentioned " \o ToString(n) \o " people. Please mention ONLY ONE coworker."
UnrecognizedMsg == "Couldn't recognize the mentioned user. Please try again."
NotInChannelMsg(channel_id) ==
    "I need to be invited to the channel first. Please invite me to <#"
    \o channel_id \o "> and try again."
UseInChannelMsg == "Please use the command in a channel to give kudos."
GenericErrorMsg == "Sorry, there was an error submitting your kudos. Please try again."

\* ack(...) with form errors, and ack() without arguments
ErrorsAck(msg) == [response_action |-> "errors", errors |-> [recipient_block |-> msg]]
PlainAck == EmptyDict

\* ValidationOutcome rejecting too many mentions from three mentions on
ValidationOutcomeOffByOne(recipient_data) ==
    IF recipient_data.mention_count = 0
    THEN [proceed |-> FALSE, ack |-> ErrorsAck(MissingMentionMsg), recipient_id |-> None]
    ELSE IF recipient_data.mention_count > 2
    THEN [proceed |-> FALSE,
          ack |-> ErrorsAck(TooManyMentionsMsg(recipient_data.mention_count)),
          recipient_id |-> None]
    ELSE IF ~TruthyStr(recipient_data.user_id)
    THEN [proceed |-> FALSE, ack |-> ErrorsAck(UnrecognizedMsg),
          recipient_id |-> recipient_data.user_id]
    ELSE [proceed |-> TRUE, ack |-> PlainAck, recipient_id |-> recipient_data.user_id]

\* ValidationOutcome without the check of lines 372-380
ValidationOutcomeNoIdCheck(recipient_data) ==
    IF recipient_data.mention_count = 0
    THEN [proceed |-> FALSE, ack |-> ErrorsAck(MissingMentionMsg), recipient_id |-> None]
    ELSE IF recipient_data.mention_count > 1
    THEN [proceed |-> FALSE,
          ack |-> ErrorsAck(TooManyMentionsMsg(recipient_data.mention_count)),
          recipient_id |-> None]
    ELSE [proceed |-> TRUE, ack |-> PlainAck, recipient_id |-> recipient_data.user_id]

\* lines 349-380: what the validation of recipient_data decides: the form
\* error to acknowledge with, or the recipient to go on with
ValidationOutcome(recipient_data) ==
    IF recipient_data.mention_count = 0
    THEN [proceed |-> FALSE, ack |-> ErrorsAck(MissingMentionMsg), recipient_id |-> None]
    ELSE IF recipient_data.mention_count > 1
    THEN [proceed |-> FALSE,
          ack |-> ErrorsAck(TooManyMentionsMsg(recipient_data.mention_count)),
          recipient_id |-> None]
    ELSE IF ~TruthyStr(recipient_data.user_id)
    THEN [proceed |-> FALSE, ack |-> ErrorsAck(UnrecognizedMsg),
          recipient_id |-> recipient_data.user_id]
    ELSE [proceed |-> TRUE, ack |-> PlainAck, recipient_id |-> recipient_data.user_id]

\* AfterValidation without the return statements
AfterValidationNoReturn(outcome) == "acknowledge"

\* lines 358, 367, 380: a rejected submission returns from the handler
AfterValidation(outcome) == IF outcome.proceed THEN "acknowledge" ELSE "done"

Event(call, to, raised) == [call |-> call, to |-> to, raised |-> raised]

Locals0 ==
    [recipient_id |-> None, recognition_type |-> "", message_content |-> "",
     kudos_message |-> "", logged |-> FALSE]

Sender == "U9"

\* the views a submission may carry
RecipientInputs ==
    { Document(<<Section(<<User("U1")>>)>>),
      Document(<<Section(<<User("U1"), Emoji("tada"), User("U2")>>)>>),
      Document(<<Section(<<User("U1")>>), Section(<<User("U2"), User("U3")>>)>>),
      Document(<<Section(<<Text("Great job "), Emoji("tada")>>)>>),
      Document(<<List("bullet", 0, <<Section(<<User("U3")>>)>>)>>),
      Document(<<Section(<<User("")>>)>>),
      Document(<<Section(<<[type |-> "user"]>>)>>),
      NoneDict }

MessageInputs ==
    { Document(<<Section(<<Text("Great job "), Emoji("tada"), User("U123")>>)>>),
      Document(<<[elements |-> <<Text("a")>>]>>) }

Views ==
    [ recipient_mention : RecipientInputs,
      recognition_type  : {"helping_hand", "night_owl"},
      message_input     : MessageInputs,
      private_metadata  : {"C1", ""} ]

\* a view submission arrives (the kudos_modal callback is dispatched)
Submit(s) ==
    /\ pc[s] = "idle"
    /\ \E v \in Views : view' = [view EXCEPT ![s] = v]
    /\ pc' = [pc EXCEPT ![s] = "validate"]
    /\ local' = [local EXCEPT ![s] = Locals0]
    /\ UNCHANGED <<acks, events, messages, sheet, sheets, pureVars>>

\* lines 341-380
Validate(s) ==
    /\ pc[s] = "validate"
    /\ \E recipient_data \in {extract_user_mention(view[s].recipient_mention)} :
         LET called_ev == Event("extract_user_mention", "", recipient_data.raised)
         IN
           IF recipient_data.raised
           THEN /\ pc' = [pc EXCEPT ![s] = "except"]
                /\ events' = [events EXCEPT ![s] = Append(@, called_ev)]
                /\ UNCHANGED <<acks, local>>
           ELSE \E outcome \in {ValidationOutcome(recipient_data.value)} :
                    /\ pc' = [pc EXCEPT ![s] = AfterValidation(outcome)]
                    /\ acks' = [acks EXCEPT ![s] =
                                   IF outcome.proceed THEN @ ELSE Append(@, outcome.ack)]
                    /\ events' = [events EXCEPT ![s] =
                                   IF outcome.proceed THEN Append(@, called_ev)
                                   ELSE Append(Append(@, called_ev),
                                               Event("ack", "errors", FALSE))]
                    /\ local' = [local EXCEPT ![s].recipient_id = outcome.recipient_id]
    /\ UNCHANGED <<view, messages, sheet, sheets, pureVars>>

\* lines 383-388
Acknowledge(s) ==
    /\ pc[s] = "acknowledge"
    /\ local' = [local EXCEPT ![s].recognition_type = view[s].recognition_type]
    /\ acks' = [acks EXCEPT ![s] = Append(@, PlainAck)]
    /\ events' = [events EXCEPT ![s] = Append(@, Event("ack", "", FALSE))]
    /\ pc' = [pc EXCEPT ![s] = "format"]
    /\ UNCHANGED <<view, messages, sheet, sheets, pureVars>>

\* line 395
RecognitionOf(recognition_type) ==
    Get(RECOGNITION_TYPES, recognition_type, [title |-> "Team Member", emoji |-> "[clap]"])

\* lines 391-403
Format(s) ==
    /\ pc[s] = "format"
    /\ \E message_content \in {extract_rich_text_content(view[s].message_input)} :
         LET extract_ev == Event("extract_rich_text_content", "", message_content.raised)
         IN
           IF message_content.raised
           THEN /\ pc' = [pc EXCEPT ![s] = "except"]
                /\ events' = [events EXCEPT ![s] = Append(@, extract_ev)]
                /\ UNCHANGED local
           ELSE /\ pc' = [pc EXCEPT ![s] = "post"]
                /\ events' = [events EXCEPT ![s] =
                       Append(Append(@, extract_ev), Event("create_kudos_message", "", FALSE))]
                /\ local' = [local EXCEPT
                       ![s].message_content = message_content.value,
                       ![s].kudos_message =
                           create_kudos_message(local[s].recipient_id,
                                                RecognitionOf(local[s].recognition_type),
                                                message_content.value, Sender)]
    /\ UNCHANGED <<view, acks, messages, sheet, sheets, pureVars>>

Message(s, to, text) == [submission |-> s, channel |-> to, text |-> text]

\* AfterNotInChannel going on to the logging
AfterNotInChannelLog(dm_raises) == "log"

\* lines 428-432: after a not_in_channel error the sender is told, and the
\* handler ends unless that message fails too
AfterNotInChannel(dm_raises) == IF dm_raises THEN "except" ELSE "done"

\* lines 406-413 and 427-439: outcome is what chat_postMessage to the channel
\* does, dm_raises whether the direct message to the sender fails
Post(s) ==
    /\ pc[s] = "post"
    /\ LET channel_id == view[s].private_metadata
       IN  \E outcome \in {"ok", "not_in_channel", "channel_not_found"},
              dm_raises \in BOOLEAN :
             IF channel_id # ""
             THEN CASE outcome = "ok" ->
                         /\ ~dm_raises
                         /\ messages' = Append(messages,
                                               Message(s, channel_id, local[s].kudos_message))
                         /\ events' = [events EXCEPT ![s] =
                                Append(@, Event("chat_postMessage", "channel", FALSE))]
                         /\ pc' = [pc EXCEPT ![s] = "log"]
                    [] outcome = "not_in_channel" ->
                         /\ messages' = IF dm_raises THEN messages
                                        ELSE Append(messages,
                                                    Message(s, Sender, NotInChannelMsg(channel_id)))
                         /\ events' = [events EXCEPT ![s] =
                                Append(Append(@, Event("chat_postMessage", "channel", TRUE)),
                                       Event("chat_postMessage", "user", dm_raises))]
                         /\ pc' = [pc EXCEPT ![s] = AfterNotInChannel(dm_raises)]
                    [] OTHER ->
                         /\ ~dm_raises
                         /\ messages' = messages
                         /\ events' = [events EXCEPT ![s] =
                                Append(@, Event("chat_postMessage", "channel", TRUE))]
                         /\ pc' = [pc EXCEPT ![s] = "except"]
             ELSE /\ outcome = "ok"
                  /\ messages' = IF dm_raises THEN messages
                                 ELSE Append(messages, Message(s, Sender, UseInChannelMsg))
                  /\ events' = [events EXCEPT ![s] =
                         Append(@, Event("chat_postMessage", "user", dm_raises))]
                  /\ pc' = [pc EXCEPT ![s] = IF dm_raises THEN "except" ELSE "done"]
    /\ UNCHANGED <<view, local, acks, sheet, sheets, pureVars>>

\* lines 473-484
RecognitionData(s) ==
    [ recipient_name   |-> "name of " \o local[s].recipient_id,
      recipient_id     |-> local[s].recipient_id,
      recipient_email  |-> "",
      recognition_type |-> RecognitionOf(local[s].recognition_type).title
                           \o " (" \o local[s].recognition_type \o ")",
      message          |-> local[s].message_content,
      sender_name      |-> "name of " \o Sender,
      sender_id        |-> Sender,
      channel_id       |-> view[s].private_metadata,
      timestamp        |-> "timestamp" ]

\* log_recognition_to_sheets letting a failed users_info call through
log_recognition_to_sheets_no_except(self, recognition_data, lookup_raises, fresh_initialized, append_raises) ==
    IF lookup_raises THEN Did(TRUE, "SlackApiError", <<>>)
    ELSE log_recognition(IF fresh_initialized THEN [initialized |-> TRUE] ELSE self,
                         recognition_data, append_raises)

\* lines 453-511: self is the module singleton sheets, lookup_raises whether
\* a users_info call fails, fresh_initialized what the SheetsIntegration built
\* for this attempt reports, append_raises whether append_row fails
log_recognition_to_sheets(self, recognition_data, lookup_raises, fresh_initialized, append_raises) ==
    IF lookup_raises THEN Did(FALSE, FALSE, <<>>)
    ELSE With(log_recognition(IF fresh_initialized THEN [initialized |-> TRUE] ELSE self,
                              recognition_data, append_raises),
              LAMBDA sheets_result :
                  IF sheets_result.raised THEN Did(FALSE, FALSE, sheets_result.rows)
                  ELSE sheets_result)

\* lines 416-425: the call of log_recognition_to_sheets; what it raises is
\* no not_in_channel error and goes to the handler of line 441
LogToSheets(s) ==
    /\ pc[s] = "log"
    /\ \E lookup_raises \in BOOLEAN, fresh_initialized \in BOOLEAN, append_raises \in BOOLEAN :
          \E logged \in {log_recognition_to_sheets(sheets, RecognitionData(s), lookup_raises,
                                                   fresh_initialized, append_raises)} :
              /\ sheet' = sheet \o logged.rows
              /\ local' = [local EXCEPT ![s].logged =
                                            IF logged.raised THEN @ ELSE logged.value]
              /\ events' = [events EXCEPT ![s] =
                     Append(@, Event("log_recognition_to_sheets", "", logged.raised))
                     \o (IF lookup_raises THEN <<>>
                         ELSE <<Event("log_recognition", "",  FALSE)>>)
                     \o (IF Len(logged.rows) > 0 \/ (~lookup_raises /\ append_raises
                                /\ (fresh_initialized \/ sheets.initialized))
                         THEN <<Event("append_row", "", append_raises)>> ELSE <<>>)]
              /\ pc' = [pc EXCEPT ![s] = IF logged.raised THEN "except" ELSE "done"]
    /\ UNCHANGED <<view, acks, messages, sheets, pureVars>>

\* HandleException answering the form with an error as well
HandleExceptionAck(s) ==
    /\ pc[s] = "except"
    /\ \E dm_raises \in BOOLEAN :
          /\ messages' = IF dm_raises THEN messages
                         ELSE Append(messages, Message(s, Sender, GenericErrorMsg))
          /\ events' = [events EXCEPT ![s] =
                 Append(@, Event("chat_postMessage", "user", dm_raises))]
          /\ pc' = [pc EXCEPT ![s] = IF dm_raises THEN "raised" ELSE "done"]
    /\ acks' = [acks EXCEPT ![s] = Append(@, ErrorsAck(GenericErrorMsg))]
    /\ UNCHANGED <<view, local, sheet, sheets, pureVars>>

\* lines 441-447: the handler of any exception raised inside the try
HandleException(s) ==
    /\ pc[s] = "except"
    /\ \E dm_raises \in BOOLEAN :
          /\ messages' = IF dm_raises THEN messages
                         ELSE Append(messages, Message(s, Sender, GenericErrorMsg))
          /\ events' = [events EXCEPT ![s] =
                 Append(@, Event("chat_postMessage", "user", dm_raises))]
          /\ pc' = [pc EXCEPT ![s] = IF dm_raises THEN "raised" ELSE "done"]
    /\ UNCHANGED <<view, local, acks, sheet, sheets, pureVars>>

Init ==
    /\ NoCall
    /\ pc = [s \in Submissions |-> "idle"]
    /\ view = [s \in Submissions |-> EmptyDict]
    /\ local = [s \in Submissions |-> Locals0]
    /\ acks = [s \in Submissions |-> <<>>]
    /\ events = [s \in Submissions |-> <<>>]
    /\ messages = <<>>
    /\ sheet = <<>>
    /\ sheets \in {[initialized |-> FALSE], [initialized |-> TRUE]}

Next ==
    \E s \in Submissions :
        \/ Submit(s)
        \/ Validate(s)
        \/ Acknowledge(s)
        \/ Format(s)
        \/ Post(s)
        \/ LogToSheets(s)
        \/ HandleException(s)

Spec == Init /\ [][Next]_vars

-----------------------------------------------------------------------------
(* The helpers run by several submissions at once.  Each listener runs in   *)
(* its own thread, so the statements of two invocations interleave; here    *)
(* one step is one iteration of the loop of a helper.  In this              *)
(* specification input[s] is what the caller of s handed over, view[s] the  *)
(* object the helpers of s read, local[f] the local variables of the frame  *)
(* f, pc[s] the helper s is in together with its loop counters, called[s]   *)
(* the helpers s has left and result[s] what each of them returned.         *)

\* FrameOf for accumulators kept in one place for all invocations
FrameShared(s) == "s1"

\* the frame holding the local variables of the invocations of s: result
\* (line 43) and message_content (line 73) are created inside the call
FrameOf(s) == s

Result0 == [mention_count |-> 0, user_id |-> None, mentioned_users |-> <<>>]

Frame0 == [result |-> Result0, message_content |-> ""]

At(where, i, j) == [at |-> where, i |-> i, j |-> j]

Returns0 ==
    [ extract_user_mention      |-> Ok(""),
      extract_rich_text_content |-> Ok(""),
      create_kudos_message      |-> Ok("") ]

ThreadViews ==
    [ recipient_mention :
          { Document(<<Section(<<User("U1"), Emoji("tada")>>),
                       Section(<<Text("and "), User("U2")>>)>>),
            Document(<<Section(<<User("U3")>>)>>),
            Document(<<Section(<<User("U1"), [type |-> "user"]>>)>>),
            NoneDict },
      message_input :
          { Document(<<Section(<<Text(" Great job "), Emoji("tada")>>),
                       Quote(<<Text("line1\nline2")>>)>>),
            Document(<<Section(<<Text("thanks")>>), [elements |-> <<Text("a")>>]>>),
            EmptyDict },
      recognition_type : {"helping_hand"} ]

InitThreads ==
    /\ input = [s \in Submissions |-> EmptyDict]
    /\ view = [s \in Submissions |-> EmptyDict]
    /\ called = [s \in Submissions |-> {}]
    /\ result = [s \in Submissions |-> Returns0]
    /\ pc = [s \in Submissions |-> At("idle", 0, 0)]
    /\ local = [s \in Submissions |-> Frame0]
    /\ acks = [s \in Submissions |-> <<>>]
    /\ events = [s \in Submissions |-> <<>>]
    /\ messages = <<>>
    /\ sheet = <<>>
    /\ sheets = [initialized |-> FALSE]

threadUnchanged == <<acks, events, messages, sheet, sheets>>

\* the helper h of s ends with outcome r, and s goes on at next
Leave(s, h, r, next) ==
    /\ called' = [called EXCEPT ![s] = @ \cup {h}]
    /\ result' = [result EXCEPT ![s][h] = r]
    /\ pc' = [pc EXCEPT ![s] = At(IF r.raised THEN "done" ELSE next, 0, 0)]

\* a submission arrives with its documents
Invoke(s) ==
    /\ pc[s].at = "idle"
    /\ \E v \in ThreadViews :
          /\ view' = [view EXCEPT ![s] = v]
          /\ input' = [input EXCEPT ![s] = v]
    /\ pc' = [pc EXCEPT ![s] = At("extract_user_mention", 0, 0)]
    /\ UNCHANGED <<called, result, local, threadUnchanged>>

\* lines 43-54: the result dict is created, the guards are passed or not
MentionEnter(s) ==
    /\ pc[s] = At("extract_user_mention", 0, 0)
    /\ local' = [local EXCEPT ![FrameOf(s)].result = Result0]
    /\ pc' = [pc EXCEPT ![s] =
                 IF HasBlocks(view[s].recipient_mention)
                 THEN At("extract_user_mention", 1, 1)
                 ELSE At("return_mention", 0, 0)]
    /\ UNCHANGED <<input, view, called, result, threadUnchanged>>

\* lines 55-64: one turn of the loops over the blocks and their elements
MentionStep(s) ==
    /\ pc[s].at = "extract_user_mention"
    /\ pc[s].i >= 1
    /\ LET blocks == BlocksOf(view[s].recipient_mention)
           i == pc[s].i
           j == pc[s].j
       IN  IF i > Len(blocks)
           THEN /\ pc' = [pc EXCEPT ![s] = At("return_mention", 0, 0)]
                /\ UNCHANGED <<local, called, result>>
           ELSE IF "type" \notin DOMAIN blocks[i]
           THEN /\ Leave(s, "extract_user_mention", Raise("KeyError"), "done")
                /\ UNCHANGED local
           ELSE IF blocks[i].type # "rich_text_section"
           THEN /\ pc' = [pc EXCEPT ![s] = At("extract_user_mention", i + 1, 1)]
                /\ UNCHANGED <<local, called, result>>
           ELSE IF "elements" \notin DOMAIN blocks[i]
           THEN /\ Leave(s, "extract_user_mention", Raise("KeyError"), "done")
                /\ UNCHANGED local
           ELSE IF j > Len(blocks[i].elements)
           THEN /\ pc' = [pc EXCEPT ![s] = At("extract_user_mention", i + 1, 1)]
                /\ UNCHANGED <<local, called, result>>
           ELSE \E r \in {MentionElement(blocks[i].elements[j],
                                          local[FrameOf(s)].result)} :
                    IF r.raised
                    THEN /\ Leave(s, "extract_user_mention", r, "done")
                         /\ UNCHANGED local
                    ELSE /\ local' = [local EXCEPT ![FrameOf(s)].result = r.value]
                         /\ pc' = [pc EXCEPT ![s] = At("extract_user_mention", i, j + 1)]
                         /\ UNCHANGED <<called, result>>
    /\ UNCHANGED <<input, view, threadUnchanged>>

\* line 66
MentionReturn(s) ==
    /\ pc[s].at = "return_mention"
    /\ Leave(s, "extract_user_mention", Ok(local[FrameOf(s)].result),
             "extract_rich_text_content")
    /\ UNCHANGED <<input, view, local, threadUnchanged>>

\* lines 70-76
ContentEnter(s) ==
    /\ pc[s] = At("extract_rich_text_content", 0, 0)
    /\ IF ~TruthyDict(view[s].message_input)
          \/ "rich_text_value" \notin DOMAIN view[s].message_input
       THEN /\ Leave(s, "extract_rich_text_content", Ok(""), "create_kudos_message")
            /\ UNCHANGED local
       ELSE /\ local' = [local EXCEPT ![FrameOf(s)].message_content = ""]
            /\ pc' = [pc EXCEPT ![s] = At("extract_rich_text_content", 1, 0)]
            /\ UNCHANGED <<called, result>>
    /\ UNCHANGED <<input, view, threadUnchanged>>

\* lines 77-85: one turn of the loop over the blocks
ContentStep(s) ==
    /\ pc[s].at = "extract_rich_text_content"
    /\ pc[s].i >= 1
    /\ LET blocks == BlocksOf(view[s].message_input)
           i == pc[s].i
       IN  IF i > Len(blocks)
           THEN /\ pc' = [pc EXCEPT ![s] = At("return_content", 0, 0)]
                /\ UNCHANGED <<local, called, result>>
           ELSE \E r \in {ContentBlock(blocks[i])} :
                    IF r.raised
                    THEN /\ Leave(s, "extract_rich_text_content", r, "done")
                         /\ UNCHANGED local
                    ELSE /\ local' = [local EXCEPT ![FrameOf(s)].message_content =
                                          @ \o r.value]
                         /\ pc' = [pc EXCEPT ![s] = At("extract_rich_text_content", i + 1, 0)]
                         /\ UNCHANGED <<called, result>>
    /\ UNCHANGED <<input, view, threadUnchanged>>

\* line 87
ContentReturn(s) ==
    /\ pc[s].at = "return_content"
    /\ Leave(s, "extract_rich_text_content",
             Ok(Strip(local[FrameOf(s)].message_content)), "create_kudos_message")
    /\ UNCHANGED <<input, view, local, threadUnchanged>>

\* lines 398-403 with 199-208: the message is composed from what the two
\* other helpers returned to s
ComposeMessage(s) ==
    /\ pc[s].at = "create_kudos_message"
    /\ Leave(s, "create_kudos_message",
             Ok(create_kudos_message(result[s].extract_user_mention.value.user_id,
                                     RecognitionOf(view[s].recognition_type),
                                     result[s].extract_rich_text_content.value,
                                     Sender)),
             "done")
    /\ UNCHANGED <<input, view, local, threadUnchanged>>

NextThreads ==
    \E s \in Submissions :
        \/ Invoke(s)
        \/ MentionEnter(s)
        \/ MentionStep(s)
        \/ MentionReturn(s)
        \/ ContentEnter(s)
        \/ ContentStep(s)
        \/ ContentReturn(s)
        \/ ComposeMessage(s)

SpecThreads == InitThreads /\ [][NextThreads]_vars

-----------------------------------------------------------------------------
(* Vocabulary of the properties *)

IsSectionBlock(b) == b.type = "rich_text_section"
IsUserElement(e) == e.type = "user"

\* the characters of s from position a to position b, as far as s has them
Part(s, a, b) == SubSeq(s, a, IF b > Len(s) THEN Len(s) ELSE b)

\* concatenation of a sequence of strings, in order
RECURSIVE Join(_)
Join(strs) == IF Len(strs) = 0 THEN "" ELSE Head(strs) \o Join(Tail(strs))

\* identifiers of the user elements directly inside the section blocks, in
\* document order (for blocks and elements that carry what the traversal reads)
RECURSIVE SectionMentions(_)
SectionMentions(blocks) ==
    IF Len(blocks) = 0 THEN <<>>
    ELSE LET b == Head(blocks)
             here == IF IsSectionBlock(b)
                     THEN LET us == SelectSeq(b.elements, IsUserElement)
                          IN  [i \in 1..Len(us) |-> us[i].user_id]
                     ELSE <<>>
         IN  here \o SectionMentions(Tail(blocks))

Returned(f) == called = f /\ ~result.raised
Raised(f) == called = f /\ result.raised

-----------------------------------------------------------------------------
(* extract_user_mention *)

\* C4: the result of extract_user_mention has mention_count equal to the
\* length of mentioned_users; user_id is the first entry of mentioned_users,
\* which is the first user mention of the document, when the list is not
\* empty, and user_id is None exactly when mention_count is 0.
C4_MentionResultShape ==
    Returned("extract_user_mention") =>
        LET r == result.value
        IN  /\ r.mention_count = Len(r.mentioned_users)
            /\ Len(r.mentioned_users) > 0 =>
                   /\ r.user_id = r.mentioned_users[1]
                   /\ r.user_id = SectionMentions(BlocksOf(input))[1]
            /\ (r.user_id = None) <=> (r.mention_count = 0)

C4_Witness ==
    /\ Returned("extract_user_mention")
    /\ result.value.mention_count = 3
    /\ result.value.mentioned_users[1] # result.value.mentioned_users[2]
    /\ result.value.user_id = "U2"

\* C5: extract_user_mention collects exactly the user elements that are direct
\* elements of top-level section blocks: what lists, quotes and preformatted
\* blocks hold, and elements of any other type, change nothing of the result.
C5_OnlySectionMentions ==
    Returned("extract_user_mention") =>
        LET r == result.value
            blocks == BlocksOf(input)
            sections == SelectSeq(blocks, IsSectionBlock)
        IN  /\ r.mentioned_users = SectionMentions(blocks)
            /\ r.mention_count = Len(SectionMentions(blocks))
            /\ extract_user_mention(Document(sections)) = result

C5_Witness ==
    /\ Returned("extract_user_mention")
    /\ Len(BlocksOf(input)) = 2
    /\ BlocksOf(input)[1] = Quote(<<Text("line1\nline2"), User("U5")>>)
    /\ BlocksOf(input)[2] = Section(<<User("U2"), Text(" thanks ")>>)
    /\ result.value.mentioned_users = <<"U2">>

\* C6 (as claimed): neither extract_rich_text_content nor extract_user_mention
\* ever raises, whatever the input lacks; without the top-level structure
\* they return the empty string and a count of 0.
C6_NeverRaises ==
    called \in {"extract_user_mention", "extract_rich_text_content"} =>
        /\ ~result.raised
        /\ ~HasBlocks(input) /\ called = "extract_rich_text_content" =>
               result.value = ""
        /\ ~HasBlocks(input) /\ called = "extract_user_mention" =>
               result.value.mention_count = 0

-----------------------------------------------------------------------------
(* process_rich_text_section *)

AllOfKnownType(elements) ==
    \A i \in 1..Len(elements) :
        "type" \in DOMAIN elements[i] /\ elements[i].type \in KnownElementTypes

\* C7 (as claimed): a section whose elements all are of a known type is
\* formatted without error, whichever fields the elements lack.
C7_KnownElementsNeverRaise ==
    /\ called = "process_rich_text_section"
    /\ "elements" \in DOMAIN input
    /\ AllOfKnownType(input.elements)
    => ~result.raised

IsTextElement(e) == "type" \in DOMAIN e /\ e.type = "text" /\ "text" \in DOMAIN e

Flag(e, k) == "style" \in DOMAIN e /\ k \in DOMAIN e.style /\ e.style[k]

\* the markers in front of a styled text, outermost first
Opening(e) ==
    (IF Flag(e, "code") THEN Backtick ELSE "") \o (IF Flag(e, "strike") THEN "~" ELSE "")
    \o (IF Flag(e, "italic") THEN "_" ELSE "") \o (IF Flag(e, "bold") THEN "*" ELSE "")

\* the markers behind it, innermost first
Closing(e) ==
    (IF Flag(e, "bold") THEN "*" ELSE "") \o (IF Flag(e, "italic") THEN "_" ELSE "")
    \o (IF Flag(e, "strike") THEN "~" ELSE "") \o (IF Flag(e, "code") THEN Backtick ELSE "")

\* C9: a text element is rendered as its content wrapped by * (bold), then _
\* (italic), then ~ (strike), then the code marker, so that the code marker is
\* outermost and * innermost; a flag that is not set adds no marker.
C9_StyleOrder ==
    /\ called = "process_rich_text_section"
    /\ "elements" \in DOMAIN input
    /\ \A i \in 1..Len(input.elements) : IsTextElement(input.elements[i])
    => /\ ~result.raised
       /\ result.value =
              Join([i \in 1..Len(input.elements) |->
                       Opening(input.elements[i]) \o input.elements[i].text
                       \o Closing(input.elements[i])])

C9_Witness ==
    /\ called = "process_rich_text_section"
    /\ input = Section(<<StyledText("hi", [k \in StyleKeys |-> TRUE])>>)
    /\ result = Ok(Backtick \o "~_*hi*_~" \o Backtick)

-----------------------------------------------------------------------------
(* extract_rich_text_content *)

HasNoElements(b) == "elements" \notin DOMAIN b \/ Len(b.elements) = 0

\* C8 (as claimed): a document with no blocks, or whose blocks (section, list,
\* preformatted, quote) all have no elements, extracts to the empty string.
C8_EmptyBlocksExtractEmpty ==
    /\ called = "extract_rich_text_content"
    /\ HasBlocks(input)
    /\ \A i \in 1..Len(BlocksOf(input)) :
           LET b == BlocksOf(input)[i]
           IN  /\ "type" \in DOMAIN b
               /\ b.type \in {"rich_text_section", "rich_text_list",
                              "rich_text_preformatted", "rich_text_quote"}
               /\ HasNoElements(b)
    => result = Ok("")

\* C8 (amended): a document with no blocks, or whose blocks all are sections
\* or lists with no elements, extracts to the empty string; as soon as one of
\* the element-less blocks is a preformatted block or a quote, the fences or
\* the quote marker remain and the result is not empty.
C8_EmptySectionsAndLists ==
    /\ called = "extract_rich_text_content"
    /\ HasBlocks(input)
    /\ \A i \in 1..Len(BlocksOf(input)) :
           LET b == BlocksOf(input)[i]
           IN  /\ "type" \in DOMAIN b
               /\ b.type \in {"rich_text_section", "rich_text_list",
                              "rich_text_preformatted", "rich_text_quote"}
               /\ HasNoElements(b)
    => /\ ~result.raised
       /\ (result.value = "") <=>
              \A i \in 1..Len(BlocksOf(input)) :
                  BlocksOf(input)[i].type \in {"rich_text_section", "rich_text_list"}

C8_Witness ==
    /\ called = "extract_rich_text_content"
    /\ BlocksOf(input) = <<List("bullet", 0, <<>>), Section(<<>>)>>
    /\ result = Ok("")

\* the fragment of one top-level block, a section being the concatenation of
\* the fragments of its elements
Fragment(b) ==
    IF IsSectionBlock(b) /\ "elements" \in DOMAIN b
    THEN Join([j \in 1..Len(b.elements) |-> SectionElement(b.elements[j]).value])
    ELSE ContentBlock(b).value

Trimmed(s) ==
    Len(s) > 0 => /\ SubSeq(s, 1, 1) \notin Whitespace
                  /\ SubSeq(s, Len(s), Len(s)) \notin Whitespace

\* C10: extract_rich_text_content returns the concatenation, in document order
\* and without separator, of the fragments of the top-level blocks, with the
\* whitespace at both ends removed; trimming the result again changes nothing.
C10_TrimmedConcatenation ==
    Returned("extract_rich_text_content") =>
        LET blocks == BlocksOf(input)
            whole == Join([i \in 1..Len(blocks) |-> Fragment(blocks[i])])
        IN  /\ result.value = Strip(whole)
            /\ Trimmed(result.value)
            /\ Strip(result.value) = result.value
            /\ \E i \in 0..Len(whole), j \in 0..Len(whole) :
                   /\ i + j <= Len(whole)
                   /\ result.value = SubSeq(whole, i + 1, Len(whole) - j)
                   /\ \A k \in (1..i) \cup ((Len(whole) - j + 1)..Len(whole)) :
                          SubSeq(whole, k, k) \in Whitespace

C10_Witness ==
    /\ Returned("extract_rich_text_content")
    /\ BlocksOf(input) =
           <<Section(<<Text(" a\n")>>), Section(<<User("U2"), Text(" thanks ")>>)>>
    /\ result.value = "a\n<@U2> thanks"

KnownBlockTypes ==
    {"rich_text_section", "rich_text_list", "rich_text_preformatted", "rich_text_quote"}

\* a block, an inline element, carrying a type tag that is none of the known
UnknownBlock(b) == "type" \in DOMAIN b /\ b.type \notin KnownBlockTypes
UnknownElement(e) == "type" \in DOMAIN e /\ e.type \notin KnownElementTypes

\* seq without its entry number i
Remove(seq, i) == SubSeq(seq, 1, i - 1) \o SubSeq(seq, i + 1, Len(seq))

\* the positions of blocks that hold inline elements directly
HoldsElements(b) ==
    /\ "type" \in DOMAIN b
    /\ b.type \in {"rich_text_section", "rich_text_preformatted", "rich_text_quote"}
    /\ "elements" \in DOMAIN b

IsLinkElement(e) == "type" \in DOMAIN e /\ e.type = "link" /\ "url" \in DOMAIN e

\* the fragment of a link element as C14 states it
LinkFragment(e) ==
    IF "text" \in DOMAIN e /\ e.text # e.url
    THEN "<" \o e.url \o "|" \o e.text \o ">"
    ELSE e.url

\* C14: the fragment of a link element is "<url|text>" exactly when the
\* element has a text that differs from its url, and the bare url in every
\* other case (no text, or a text equal to the url).
C14_LinkFragment ==
    Returned("process_rich_text_section") =>
        LET es == Get(input, "elements", <<>>)
        IN  /\ result.value =
                   Join([j \in 1..Len(es) |->
                            IF IsLinkElement(es[j]) THEN LinkFragment(es[j])
                            ELSE SectionElement(es[j]).value])
            /\ \A j \in 1..Len(es) :
                   IsLinkElement(es[j]) =>
                       /\ SectionElement(es[j]) = Ok(LinkFragment(es[j]))
                       /\ (SectionElement(es[j]).value = es[j].url)
                              <=> ("text" \notin DOMAIN es[j] \/ es[j].text = es[j].url)

C14_Witness ==
    /\ called = "process_rich_text_section"
    /\ input = Section(<<LinkText("http://a", "site"), LinkText("http://a", "http://a")>>)
    /\ result = Ok("<http://a|site>http://a")

-----------------------------------------------------------------------------
(* process_rich_text_list, process_rich_text_quote *)

\* n spaces
Spaces(n) == [k \in 1..n |-> " "]

\* the line of item number k (counted from 1) of list_block, whose items are
\* sections that render without error
ItemLine(list_block, k) ==
    LET item == list_block.elements[k]
        style == Get(list_block, "style", "bullet")
        indent == Get(list_block, "indent", 0)
    IN  IF item.type = "rich_text_section"
        THEN Join(Spaces(2 * indent))
             \o (IF style = "bullet" THEN BulletMarker ELSE ToString(k) \o ". ")
             \o process_rich_text_section(item).value \o "\n"
        ELSE ""

\* C12: process_rich_text_list returns one newline followed by one line per
\* item: two spaces per indent level, the bullet marker for the bullet style
\* or the number of the item (counted from 1) and ". " for the ordered style,
\* the rendered section of the item, and a newline; so an ordered list of n
\* sections is numbered 1..n in the order of the items.
C12_ListRendering ==
    Returned("process_rich_text_list") =>
        LET n == Len(Get(input, "elements", <<>>))
        IN  /\ result.value = "\n" \o Join([k \in 1..n |-> ItemLine(input, k)])
            /\ SubSeq(result.value, 1, 1) = "\n"
            /\ ( /\ Get(input, "style", "bullet") = "ordered"
                 /\ \A k \in 1..n : IsSectionBlock(input.elements[k]) )
               => \A k \in 1..n :
                      \E at \in 1..Len(result.value) :
                          LET head == "\n" \o Join(Spaces(2 * input.indent))
                                          \o ToString(k) \o ". "
                          IN  Part(result.value, at, at + Len(head) - 1) = head

C12_Witness ==
    /\ called = "process_rich_text_list"
    /\ input = List("ordered", 0, <<Section(<<Text("a")>>), Section(<<Text("b")>>)>>)
    /\ result = Ok("\n1. a\n2. b\n")

\* the raw text of the text elements of a quote, in order
QuoteRawText(quote) ==
    LET es == SelectSeq(Get(quote, "elements", <<>>), IsTextElement)
    IN  Join([k \in 1..Len(es) |-> es[k].text])

\* s without the "> " that follows each of its newlines
RECURSIVE Unquote(_, _)
Unquote(s, i) ==
    IF i > Len(s) THEN ""
    ELSE IF Char(s, i) = "\n" /\ Part(s, i + 1, i + 2) = "> "
    THEN "\n" \o Unquote(s, i + 3)
    ELSE Char(s, i) \o Unquote(s, i + 1)

\* C13: process_rich_text_quote returns a newline and "> ", then the raw text
\* of the text elements of the block (elements of other types and the style
\* flags add nothing) with "> " put after each of its newlines, then a
\* newline: every line of the quote starts with "> ".
C13_QuoteRendering ==
    Returned("process_rich_text_quote") =>
        LET out == result.value
            raw == QuoteRawText(input)
        IN  /\ Part(out, 1, 3) = "\n> "
            /\ SubSeq(out, Len(out), Len(out)) = "\n"
            /\ \A k \in 1..(Len(out) - 1) :
                   Char(out, k) = "\n" => Part(out, k + 1, k + 2) = "> "
            /\ Unquote(out, 1) = "\n" \o raw \o "\n"
            /\ Len(out) = Len(raw) + 4
                   + 2 * Cardinality({k \in 1..Len(raw) : Char(raw, k) = "\n"})

C13_Witness ==
    /\ called = "process_rich_text_quote"
    /\ input = Quote(<<Text("line1\nline2"), User("U5")>>)
    /\ result = Ok("\n> line1\n> line2\n")

-----------------------------------------------------------------------------
(* create_kudos_message *)

\* the fields of the message in their order, fixed text included
TemplateFields(a) ==
    << DEFAULT_EMOJI, " *Thanks ", "<@" \o a.recipient_id \o ">", " for being a ",
       a.recognition.title, " ", a.recognition.emoji, " * ", DEFAULT_EMOJI,
       "\n\n", "*Message:*", "\n", a.message_content, "\n\n",
       "*From:* ", "<@" \o a.sender_id \o ">", "\n" >>

\* the number of characters of the template outside the five inserted values
FixedLength ==
    2 * Len(DEFAULT_EMOJI) + Len(" *Thanks <@> for being a   * ")
    + Len("\n\n*Message:*\n\n\n*From:* <@>\n")

\* C15: create_kudos_message has no conditional part: for every recipient,
\* recognition, content (the empty string included) and sender it gives the
\* leading emoji, the recipient mention, the title and emoji of the
\* recognition, the leading emoji again, a blank line, the Message label, the
\* content, a blank line, the From label and the sender mention, in that
\* order, each of the five values inserted once.
C15_FixedTemplate ==
    called = "create_kudos_message" =>
        /\ ~result.raised
        /\ result.value = Join(TemplateFields(input))
        /\ Len(result.value) =
               FixedLength + Len(input.recipient_id) + Len(input.recognition.title)
               + Len(input.recognition.emoji) + Len(input.message_content)
               + Len(input.sender_id)

C15_Witness ==
    /\ called = "create_kudos_message"
    /\ input.message_content = ""
    /\ result.value =
           "[clap] *Thanks <@U2> for being a Helping Hand [handshake] * [clap]\n\n"
           \o "*Message:*\n\n\n*From:* <@U9>\n"

-----------------------------------------------------------------------------
(* The helpers under concurrent submissions *)

\* what the helper h gives when it runs alone, from start to end, on what
\* was handed to s
Alone(s, h) ==
    CASE h = "extract_user_mention" ->
             extract_user_mention(input[s].recipient_mention)
      [] h = "extract_rich_text_content" ->
             extract_rich_text_content(input[s].message_input)
      [] h = "create_kudos_message" ->
             Ok(create_kudos_message(
                    extract_user_mention(input[s].recipient_mention).value.user_id,
                    RecognitionOf(input[s].recognition_type),
                    extract_rich_text_content(input[s].message_input).value,
                    Sender))

\* C16: whatever the interleaving of the submissions, each invocation of
\* extract_user_mention, extract_rich_text_content and create_kudos_message
\* returns (or raises) what it does when run alone on the same input, and
\* the documents handed to the helpers are left as they were.
C16_InvocationsIndependent ==
    \A s \in Submissions :
        /\ \A h \in called[s] : result[s][h] = Alone(s, h)
        /\ view[s] = input[s]

\* two invocations are under way at once, each with its own partial result
C16_Witness ==
    /\ called["s1"] = {"extract_user_mention"}
    /\ result["s1"].extract_user_mention =
           Ok([mention_count |-> 2, user_id |-> "U1", mentioned_users |-> <<"U1", "U2">>])
    /\ pc["s1"] = At("extract_rich_text_content", 2, 0)
    /\ local["s1"].message_content = " Great job :tada:"
    /\ called["s2"] = {}
    /\ pc["s2"] = At("extract_user_mention", 1, 2)
    /\ local["s2"].result.mentioned_users = <<"U3">>

-----------------------------------------------------------------------------
(* handle_kudos_submission *)

Validated(s) == pc[s] \notin {"idle", "validate"}

HasErrors(payload) == "errors" \in DOMAIN payload

\* the form error of payload starts with prefix
ErrorStartsWith(payload, prefix) ==
    /\ HasErrors(payload)
    /\ SubSeq(payload.errors.recipient_block, 1, Len(prefix)) = prefix

Calls(s) == {events[s][i].call : i \in 1..Len(events[s])}

\* C1: handle_kudos_submission rejects the submission with the missing
\* mention form error exactly when extract_user_mention reports a
\* mention_count of 0, and with the too many mentions form error exactly when
\* it reports more than 1; that error states the number of user mentions
\* found in the document.
C1_MentionCountErrors ==
    \A s \in Submissions :
        Validated(s) =>
            \A r \in {extract_user_mention(view[s].recipient_mention)} :
                LET found == Len(SectionMentions(BlocksOf(view[s].recipient_mention)))
                    missing == ~r.raised /\ r.value.mention_count = 0
                    many == ~r.raised /\ r.value.mention_count > 1
                IN  /\ missing <=> (acks[s] = <<ErrorsAck(MissingMentionMsg)>>)
                    /\ many <=> (\E i \in 1..Len(acks[s]) :
                                    ErrorStartsWith(acks[s][i], "You mentioned "))
                    /\ many => acks[s] = <<ErrorsAck(TooManyMentionsMsg(found))>>
                    /\ missing \/ many => pc[s] = "done"

C1_Witness ==
    \E s \in Submissions :
        /\ pc[s] = "done"
        /\ Len(SectionMentions(BlocksOf(view[s].recipient_mention))) = 3
        /\ acks[s] = <<ErrorsAck(
               "You mentioned 3 people. Please mention ONLY ONE coworker.")>>

\* the recipient document of s holds exactly one user mention
OneMention(s) ==
    \A r \in {extract_user_mention(view[s].recipient_mention)} :
        /\ ~r.raised
        /\ r.value.mention_count = 1
        /\ Len(SectionMentions(BlocksOf(view[s].recipient_mention))) = 1

FirstId(s) == SectionMentions(BlocksOf(view[s].recipient_mention))[1]

\* validation let the submission through with recipient id as the recipient
Accepted(s, id) ==
    /\ local[s].recipient_id = id
    /\ \A i \in 1..Len(acks[s]) : ~HasErrors(acks[s][i])
    /\ pc[s] = "acknowledge" \/ acks[s] = <<PlainAck>>

\* C2 (as claimed): for every recipient document with exactly one user
\* mention, validation succeeds with the identifier of that mention as the
\* resolved recipient, and no error outcome is produced.
C2_OneMentionAlwaysSucceeds ==
    \A s \in Submissions :
        Validated(s) /\ OneMention(s) => Accepted(s, FirstId(s))

\* C2 (amended): for every recipient document with exactly one user mention
\* whose identifier is not empty, validation succeeds with that identifier
\* as the resolved recipient and no error outcome is produced; when the
\* identifier is empty the submission is rejected with the form error that
\* the mentioned user could not be recognized.
C2_OneNamedMentionSucceeds ==
    \A s \in Submissions :
        Validated(s) /\ OneMention(s) =>
            IF FirstId(s) # ""
            THEN Accepted(s, FirstId(s))
            ELSE /\ acks[s] = <<ErrorsAck(UnrecognizedMsg)>>
                 /\ pc[s] = "done"

C2_Witness ==
    \E s \in Submissions :
        /\ pc[s] = "format"
        /\ view[s].recipient_mention = Document(<<Section(<<User("U1")>>)>>)
        /\ local[s].recipient_id = "U1"
        /\ acks[s] = <<PlainAck>>

\* validation of the recipient field of s failed
Rejected(s) ==
    \/ \E i \in 1..Len(acks[s]) : HasErrors(acks[s][i])
    \/ /\ Validated(s)
       /\ \A r \in {extract_user_mention(view[s].recipient_mention)} :
              ~r.raised /\ r.value.mention_count # 1

\* C3: in handle_kudos_submission the mentions of the recipient field are
\* validated before any message formatting, and once validation has failed
\* nothing of the rest of the pipeline happens for that submission:
\* extract_rich_text_content and create_kudos_message are not called, no
\* message is posted and no row is appended to the sheet.
C3_ValidationShortCircuits ==
    \A s \in Submissions :
        /\ \A i \in 1..Len(events[s]) :
               events[s][i].call \in {"extract_rich_text_content", "create_kudos_message"}
                   => events[s][1].call = "extract_user_mention" /\ i > 1
        /\ Rejected(s) =>
               /\ Calls(s) \subseteq {"extract_user_mention", "ack"}
               /\ Len(acks[s]) = 1
               /\ \A i \in 1..Len(messages) : messages[i].submission # s
               /\ pc[s] = "done"
               /\ ~local[s].logged

C3_Witness ==
    \E s, t \in Submissions :
        /\ pc[s] = "done"
        /\ acks[s] = <<ErrorsAck(MissingMentionMsg)>>
        /\ Len(events[s]) = 2
        /\ pc[t] = "done"
        /\ "append_row" \in Calls(t)
        /\ Len(sheet) = 1

-----------------------------------------------------------------------------
(* Sheets logging and acknowledgement *)

\* the sheet as the integration object of the call found it
SheetBefore == IF input.self.initialized THEN <<HeaderRow>> ELSE <<>>

EventsAt(s, call, to, raised) ==
    {i \in 1..Len(events[s]) : events[s][i] = Event(call, to, raised)}

PostedToChannel(s) == EventsAt(s, "chat_postMessage", "channel", FALSE) # {}

ChannelPostFailed(s) == EventsAt(s, "chat_postMessage", "channel", TRUE) # {}

RowsAppended(s) == EventsAt(s, "append_row", "", FALSE)

RECURSIVE TotalRows(_)
TotalRows(S) ==
    IF S = {} THEN 0
    ELSE LET s == CHOOSE x \in S : TRUE
         IN  Cardinality(RowsAppended(s)) + TotalRows(S \ {s})

\* C18: handle_kudos_submission attempts the logging to the sheet only after
\* the kudos message was posted to the channel: with an empty channel id or a
\* failed post (not_in_channel or another Slack error) no row is appended for
\* the submission.
C18_LogOnlyAfterPost ==
    /\ \A s \in Submissions :
          /\ \A i \in 1..Len(events[s]) :
                 events[s][i].call \in {"log_recognition_to_sheets", "log_recognition",
                                        "append_row"}
                     => \E k \in EventsAt(s, "chat_postMessage", "channel", FALSE) : k < i
          /\ pc[s] # "idle" /\ (view[s].private_metadata = "" \/ ChannelPostFailed(s))
                 => /\ RowsAppended(s) = {}
                    /\ "log_recognition_to_sheets" \notin Calls(s)
                    /\ ~local[s].logged
          /\ PostedToChannel(s) =>
                 \E m \in 1..Len(messages) :
                     messages[m] = Message(s, view[s].private_metadata, local[s].kudos_message)
    /\ Len(sheet) = TotalRows(Submissions)

C18_Witness ==
    \E s, t \in Submissions :
        /\ pc[s] = "done"
        /\ ChannelPostFailed(s)
        /\ EventsAt(s, "chat_postMessage", "user", FALSE) # {}
        /\ pc[t] = "done"
        /\ view[t].private_metadata = ""
        /\ Len(events[t]) = 5
        /\ sheet = <<>>

\* C19: on every path of handle_kudos_submission, the exception paths
\* included, ack is called at most once; the kudos message is posted to the
\* channel only after ack() without errors, and a submission acknowledged
\* with form errors never leads to a post to the channel.
C19_AckOnceBeforePost ==
    \A s \in Submissions :
        /\ Len(acks[s]) <= 1
        /\ Cardinality({i \in 1..Len(events[s]) : events[s][i].call = "ack"}) = Len(acks[s])
        /\ \A i \in 1..Len(events[s]) :
               events[s][i].call = "chat_postMessage" /\ events[s][i].to = "channel"
                   => /\ acks[s] = <<PlainAck>>
                      /\ \E k \in EventsAt(s, "ack", "", FALSE) : k < i
        /\ (\E i \in 1..Len(acks[s]) : HasErrors(acks[s][i]))
               => /\ ~PostedToChannel(s) /\ ~ChannelPostFailed(s)
                  /\ \A m \in 1..Len(messages) : messages[m].submission # s

C19_Witness ==
    \E s, t \in Submissions :
        /\ pc[s] = "done"
        /\ acks[s] = <<PlainAck>>
        /\ EventsAt(s, "extract_rich_text_content", "", TRUE) # {}
        /\ \E m \in 1..Len(messages) : messages[m] = Message(s, Sender, GenericErrorMsg)
        /\ pc[t] = "done"
        /\ PostedToChannel(t)
        /\ acks[t] = <<PlainAck>>

====
